---------------------------- MODULE Spec2Model ----------------------------
(***************************************************************************)
(* The RON encoder of src/src/encode.rs: Encoder (the serde Serializer),   *)
(* the two Formatters (CompactFormatter, PrettyFormatter) and the one-shot *)
(* entry points to_writer / to_writer_pretty / to_vec / to_vec_pretty.     *)
(*                                                                         *)
(* Output text is a sequence of characters, each a one-character string.   *)
(* The character U+00B6 (the pilcrow of visit_enum_unit) is written        *)
(* "PILCROW".  An Encoder is a record; every handler is an operator from   *)
(* the Encoder before the call to the Encoder after it.  The field err     *)
(* says that the call returned Err: try!() then returns at once, which is  *)
(* what Try does.                                                          *)
(***************************************************************************)
EXTENDS Integers, Sequences, FiniteSets, TLC

VARIABLES value, sink, op, enc, res

vars == <<value, sink, op, enc, res>>

(***************************************************************************)
(* Bounds of the model.                                                    *)
(***************************************************************************)
\* longest sequence / map (number of elements) a value holds
MaxLen == 2
\* deepest nesting of collections inside collections
MaxDepth == 2
\* a faulty sink misbehaves on one write call, numbered 1..MaxWrites
MaxWrites == 6

(***************************************************************************)
(* Values handed to the encoder, as the host's Serialize implementations   *)
(* present them.  A sequence or map comes with its visitor: len says       *)
(* whether visitor.len() is Some(number of elements) or None, per says how  *)
(* many elements one call of visitor.visit passes to the serializer: "one" *)
(* (serde's iterator and tuple visitors) or "all" (a host visitor that     *)
(* passes every element during its first call).                            *)
(***************************************************************************)
VUnit == [k |-> "unit"]
VBool(b) == [k |-> "bool", b |-> b]
VInt(n) == [k |-> "int", n |-> n]
VChar(c) == [k |-> "char", c |-> c]
VStr(s) == [k |-> "str", s |-> s]
VNone == [k |-> "none"]
VSome(x) == [k |-> "some", x |-> x]
SeqV(len, per, elts) == [k |-> "seq", len |-> len, per |-> per, elts |-> elts]
MapV(len, per, pairs) == [k |-> "map", len |-> len, per |-> per, pairs |-> pairs]
VEnumUnit(name, variant) == [k |-> "enum_unit", name |-> name, variant |-> variant]
VEnumSeq(name, variant, vis) ==
    [k |-> "enum_seq", name |-> name, variant |-> variant, vis |-> vis]
VEnumMap(name, variant, vis) ==
    [k |-> "enum_map", name |-> name, variant |-> variant, vis |-> vis]

Pilcrow == "PILCROW"
Quote == "\""
Apostrophe == "'"

(***************************************************************************)
(* fmt::Display of the scalars, as the pieces Display hands to write_str.  *)
(***************************************************************************)
Digit(d) == <<"0", "1", "2", "3", "4", "5", "6", "7", "8", "9">>[d + 1]

RECURSIVE Digits(_)
Digits(n) == IF n < 10 THEN <<Digit(n)>> ELSE Digits(n \div 10) \o <<Digit(n % 10)>>

DisplayInt(n) == IF n < 0 THEN <<<<"-">>, Digits(0 - n)>> ELSE <<Digits(n)>>

DisplayBool(b) == IF b THEN <<<<"t", "r", "u", "e">>>> ELSE <<<<"f", "a", "l", "s", "e">>>>

(***************************************************************************)
(* The sink W: io::Write.  sink.mode = "full": every write call accepts    *)
(* the whole buffer (a Vec<u8>).  Otherwise write call number sink.at      *)
(* returns Ok(0) ("zero") or Err ("err") and every other call accepts the  *)
(* whole buffer.  calls counts the write calls; lost and after record, for *)
(* observation only, that a call did not complete and that a call was      *)
(* issued after such a call.  Err stands for an error other than           *)
(* Interrupted (which write_all retries); a call that accepts a part of    *)
(* the buffer is not modelled.                                             *)
(***************************************************************************)
VecSink == [mode |-> "full", at |-> 0]

\* one call of io::Write::write: the Encoder after it and what it returned
write(e, buf) ==
    LET c == e.calls + 1
        e1 == [e EXCEPT !.calls = c, !.after = e.after \/ e.lost]
        fault == e.sink.mode # "full" /\ e.sink.at = c
    IN  IF fault /\ e.sink.mode = "err"
        THEN [e |-> [e1 EXCEPT !.lost = TRUE], ret |-> "Err"]
        ELSE IF fault
        THEN [e |-> [e1 EXCEPT !.lost = TRUE], ret |-> "Ok0"]
        ELSE [e |-> [e1 EXCEPT !.w = @ \o buf], ret |-> "Ok"]

\* io::Write::write_all: no call for an empty buffer; Ok(0) is Err(WriteZero)
write_all(e, buf) ==
    IF buf = <<>> THEN e
    ELSE LET r == write(e, buf)
         IN  IF r.ret = "Ok" THEN r.e ELSE [r.e EXCEPT !.err = TRUE]

\* try!(x); rest
Try(e, Rest(_)) == IF e.err THEN e ELSE Rest(e)

\* write!(writer, ...): one write_all per piece, stopping at the first Err
RECURSIVE write_fmt(_, _)
write_fmt(e, pieces) ==
    IF pieces = <<>> THEN e
    ELSE Try(write_all(e, Head(pieces)), LAMBDA e1 : write_fmt(e1, Tail(pieces)))

(***************************************************************************)
(* Encoder::with_formatter.  fmt is "compact" (CompactFormatter) or        *)
(* "pretty" (PrettyFormatter, with current_indent and indent).  log is     *)
(* for observation only: one entry per Formatter.comma call made by        *)
(* visit_seq_elt / visit_map_elt, with the isFirst argument, the position  *)
(* nth of the element in its own collection, and the position in the       *)
(* output where the element starts.                                        *)
(***************************************************************************)
PrettyFormatter_new == [current_indent |-> 0, indent |-> <<" ", " ">>]

with_formatter(writer, fmt) ==
    [w |-> <<>>, sink |-> writer, calls |-> 0, err |-> FALSE,
     fmt |-> fmt,
     current_indent |-> PrettyFormatter_new.current_indent,
     indent |-> PrettyFormatter_new.indent,
     first_line |-> FALSE,
     lost |-> FALSE, after |-> FALSE, underflow |-> FALSE,
     nth |-> 0, log |-> <<>>]

emit_constant(e, pieces) == write_fmt(e, pieces)

emit_escape(e, pieces, escape) == write_fmt(e, <<<<escape>>>> \o pieces \o <<<<escape>>>>)

(***************************************************************************)
(* The Formatters.                                                         *)
(***************************************************************************)
CompactFormatter_open(e, ch) == write_all(e, <<ch>>)

CompactFormatter_comma(e, first) == IF first THEN e ELSE write_all(e, <<",">>)

CompactFormatter_colon(e) == write_all(e, <<":">>)

CompactFormatter_close(e, ch) == write_all(e, <<ch>>)

RECURSIVE indent(_, _, _)
indent(e, n, s) ==
    IF n = 0 THEN e
    ELSE Try(write_all(e, s), LAMBDA e1 : indent(e1, n - 1, s))

PrettyFormatter_open(e, ch) ==
    write_all([e EXCEPT !.current_indent = @ + 1], <<ch>>)

PrettyFormatter_comma(e, first) ==
    Try(IF first THEN write_all(e, <<"\n">>) ELSE write_all(e, <<",", "\n">>),
        LAMBDA e1 : indent(e1, e1.current_indent, e1.indent))

PrettyFormatter_colon(e) == write_all(e, <<":", " ">>)

\* PrettyFormatter::close re-indenting before it decrements current_indent
PrettyFormatter_close_indent_first(e, ch) ==
    LET r == write(e, <<"\n">>)
        e1 == IF r.ret = "Err" THEN [r.e EXCEPT !.err = TRUE] ELSE r.e
    IN  Try(e1, LAMBDA e2 :
        Try(indent(e2, e2.current_indent, e2.indent), LAMBDA e3 :
        write_all(IF e3.current_indent = 0
                  THEN [e3 EXCEPT !.underflow = TRUE]
                  ELSE [e3 EXCEPT !.current_indent = @ - 1], <<ch>>)))

\* current_indent is a usize: `-= 1` at 0 overflows (a panic or a wrap, by
\* the build); underflow records that it happened
PrettyFormatter_close(e, ch) ==
    LET e0 == IF e.current_indent = 0
              THEN [e EXCEPT !.underflow = TRUE]
              ELSE [e EXCEPT !.current_indent = @ - 1]
        r == write(e0, <<"\n">>)
        e1 == IF r.ret = "Err" THEN [r.e EXCEPT !.err = TRUE] ELSE r.e
    IN  Try(e1, LAMBDA e2 :
        Try(indent(e2, e2.current_indent, e2.indent), LAMBDA e3 :
        write_all(e3, <<ch>>)))

open(e, ch) ==
    IF e.fmt = "compact" THEN CompactFormatter_open(e, ch) ELSE PrettyFormatter_open(e, ch)

comma(e, first) ==
    IF e.fmt = "compact" THEN CompactFormatter_comma(e, first)
    ELSE PrettyFormatter_comma(e, first)

colon(e) ==
    IF e.fmt = "compact" THEN CompactFormatter_colon(e) ELSE PrettyFormatter_colon(e)

close(e, ch) ==
    IF e.fmt = "compact" THEN CompactFormatter_close(e, ch) ELSE PrettyFormatter_close(e, ch)

(***************************************************************************)
(* impl ser::Serializer for Encoder.                                       *)
(***************************************************************************)
RECURSIVE Serialize(_, _)
RECURSIVE visit_seq(_, _)
RECURSIVE visit_map(_, _)
RECURSIVE visit_seq_elt(_, _)
RECURSIVE visit_map_elt(_, _, _)
RECURSIVE SeqVisitor_rest(_, _, _)
RECURSIVE MapVisitor_rest(_, _, _)

visit_bool(e, v) == emit_constant(e, DisplayBool(v))

visit_int(e, v) == emit_constant(e, DisplayInt(v))

visit_char(e, v) == emit_escape(e, <<<<v>>>>, Apostrophe)

visit_str(e, v) == emit_escape(e, <<v>>, Quote)

visit_unit(e) == write_all(e, <<"(", ")">>)

visit_none(e) == visit_unit(e)

\* visit_some writing a wrapper token around the value
visit_some_wrapped(e, x) ==
    Try(write_all(e, <<"S", "o", "m", "e", "(">>), LAMBDA e1 :
    Try(Serialize(e1, x), LAMBDA e2 :
    write_all(e2, <<")">>)))

visit_some(e, x) == Serialize(e, x)

visit_enum_unit(e, name, variant) == emit_escape(e, <<name>>, Pilcrow)

\* what the host records about the element it is about to pass
Passing(e, i) == [e EXCEPT !.nth = i]

Logged(e, first) ==
    [e EXCEPT !.log = Append(@, [first |-> first, nth |-> e.nth, pos |-> Len(e.w) + 1])]

\* a visitor of per = "all", from element i on, inside one visitor.visit call
SeqVisitor_rest(e, elts, i) ==
    IF i > Len(elts) THEN e
    ELSE Try(visit_seq_elt(Passing(e, i), elts[i]),
             LAMBDA e1 : SeqVisitor_rest(e1, elts, i + 1))

\* one call of SeqVisitor::visit on a fresh visitor
SeqVisitor_visit(e, vis) ==
    IF vis.elts = <<>> THEN e
    ELSE IF vis.per = "one" THEN visit_seq_elt(Passing(e, 1), vis.elts[1])
    ELSE SeqVisitor_rest(e, vis.elts, 1)

MapVisitor_rest(e, pairs, i) ==
    IF i > Len(pairs) THEN e
    ELSE Try(visit_map_elt(Passing(e, i), pairs[i][1], pairs[i][2]),
             LAMBDA e1 : MapVisitor_rest(e1, pairs, i + 1))

\* one call of MapVisitor::visit on a fresh visitor
MapVisitor_visit(e, vis) ==
    IF vis.pairs = <<>> THEN e
    ELSE IF vis.per = "one"
    THEN visit_map_elt(Passing(e, 1), vis.pairs[1][1], vis.pairs[1][2])
    ELSE MapVisitor_rest(e, vis.pairs, 1)

\* visit_seq without the case of a known length of zero
visit_seq_always_open(e, vis) ==
    Try(open(e, "["), LAMBDA e1 :
    Try(SeqVisitor_visit([e1 EXCEPT !.first_line = TRUE], vis), LAMBDA e2 :
    close(e2, "]")))

visit_seq(e, vis) ==
    IF vis.len = "some" /\ Len(vis.elts) = 0
    THEN write_all(e, <<"[", "]">>)
    ELSE Try(open(e, "["), LAMBDA e1 :
         Try(SeqVisitor_visit([e1 EXCEPT !.first_line = TRUE], vis), LAMBDA e2 :
         close(e2, "]")))

\* visit_enum_seq writing the type name as the key
visit_enum_seq_type_name(e, name, variant, vis) ==
    Try(open(e, "{"), LAMBDA e1 :
    Try(comma(e1, TRUE), LAMBDA e2 :
    Try(visit_str(e2, name), LAMBDA e3 :
    Try(colon(e3), LAMBDA e4 :
    Try(visit_seq(e4, vis), LAMBDA e5 :
    close(e5, "}"))))))

visit_enum_seq(e, name, variant, vis) ==
    Try(open(e, "{"), LAMBDA e1 :
    Try(comma(e1, TRUE), LAMBDA e2 :
    Try(visit_str(e2, variant), LAMBDA e3 :
    Try(colon(e3), LAMBDA e4 :
    Try(visit_seq(e4, vis), LAMBDA e5 :
    close(e5, "}"))))))

visit_seq_elt(e, x) ==
    Try(Logged(comma(e, e.first_line), e.first_line), LAMBDA e1 :
    Serialize([e1 EXCEPT !.first_line = TRUE], x))

visit_map(e, vis) ==
    IF vis.len = "some" /\ Len(vis.pairs) = 0
    THEN write_all(e, <<"{", "}">>)
    ELSE Try(open(e, "{"), LAMBDA e1 :
         Try(MapVisitor_visit([e1 EXCEPT !.first_line = TRUE], vis), LAMBDA e2 :
         close(e2, "}")))

visit_enum_map(e, name, variant, vis) ==
    Try(open(e, "{"), LAMBDA e1 :
    Try(comma(e1, TRUE), LAMBDA e2 :
    Try(visit_str(e2, variant), LAMBDA e3 :
    Try(colon(e3), LAMBDA e4 :
    Try(visit_map(e4, vis), LAMBDA e5 :
    close(e5, "}"))))))

visit_map_elt(e, key, val) ==
    Try(Logged(comma(e, e.first_line), e.first_line), LAMBDA e1 :
    Try(Serialize([e1 EXCEPT !.first_line = FALSE], key), LAMBDA e2 :
    Try(colon(e2), LAMBDA e3 :
    Serialize(e3, val))))

\* value.serialize(self): the host's Serialize calls the handler of the value's kind
Serialize(e, v) ==
    CASE v.k = "unit" -> visit_unit(e)
      [] v.k = "bool" -> visit_bool(e, v.b)
      [] v.k = "int" -> visit_int(e, v.n)
      [] v.k = "char" -> visit_char(e, v.c)
      [] v.k = "str" -> visit_str(e, v.s)
      [] v.k = "none" -> visit_none(e)
      [] v.k = "some" -> visit_some(e, v.x)
      [] v.k = "seq" -> visit_seq(e, v)
      [] v.k = "map" -> visit_map(e, v)
      [] v.k = "enum_unit" -> visit_enum_unit(e, v.name, v.variant)
      [] v.k = "enum_seq" -> visit_enum_seq(e, v.name, v.variant, v.vis)
      [] v.k = "enum_map" -> visit_enum_map(e, v.name, v.variant, v.vis)

(***************************************************************************)
(* The entry points.                                                       *)
(***************************************************************************)
to_writer(writer, v) == Serialize(with_formatter(writer, "compact"), v)

to_writer_pretty(writer, v) == Serialize(with_formatter(writer, "pretty"), v)

\* a Vec<u8> accepts every write, so the unwrap() never panics
to_vec(v) == to_writer(VecSink, v).w

to_vec_pretty(v) == to_writer_pretty(VecSink, v).w

Result(e) == IF e.err THEN "Err" ELSE "Ok"

(***************************************************************************)
(* The values the entry points are called with.  All(d) holds the scalars  *)
(* and the collections, options and enum variants nested at most d deep;   *)
(* a collection holds at most MaxLen elements.                             *)
(***************************************************************************)
NameE == <<"E">>
NameA == <<"A">>
NameB == <<"B">>

Atoms ==
    {VUnit, VBool(TRUE), VBool(FALSE), VInt(1), VInt(2), VInt(12), VInt(-3),
     VStr(<<"a">>), VStr(<<>>), VStr(NameA), VChar("b"), VNone,
     VEnumUnit(NameE, NameA), VEnumUnit(NameE, NameB), VEnumUnit(NameA, NameA)}

SeqsUpTo(S, n) == UNION {[1..m -> S] : m \in 0..n}

\* len and per where they can make a difference: len on any collection,
\* per on a collection of two elements or more
Visitors(S) ==
    {<<l, p, s>> \in {"some", "none"} \X {"one", "all"} \X SeqsUpTo(S, MaxLen) :
        p = "all" => Len(s) >= 2}

SeqsOf(S) == {SeqV(t[1], t[2], t[3]) : t \in Visitors(S)}

MapsOf(P) == {MapV(t[1], t[2], t[3]) : t \in Visitors(P)}

RECURSIVE Core(_)
Core(d) == IF d = 0 THEN VInt(1) ELSE SeqV("none", "all", <<Core(d - 1), VInt(2)>>)

\* the elements of a collection nested d deep
Elem(d) ==
    IF d = 0 THEN {VInt(1), VInt(2), VStr(<<"a">>)}
    ELSE {VInt(1),
          Core(d),
          SeqV("none", "one", <<>>),
          MapV("some", "one", << <<VStr(<<"a">>), Core(d - 1)>> >>),
          VEnumSeq(NameE, NameB, SeqV("some", "one", <<Core(d - 1)>>))}

\* the key/value pairs of a map nested d deep
Pairs(d) ==
    {<<VStr(<<"a">>), x>> : x \in Elem(d)} \cup {<<Core(d), VInt(2)>>, <<VInt(2), VInt(1)>>}

Payload(d) == {VInt(1), Core(d)}

Level(d) ==
    SeqsOf(Elem(d)) \cup MapsOf(Pairs(d))
    \cup {VSome(x) : x \in Elem(d) \cup {VNone, VUnit}}
    \cup {VEnumSeq(NameE, var, vis) : var \in {NameA, NameB}, vis \in SeqsOf(Payload(d))}
    \cup {VEnumMap(NameE, var, vis) : var \in {NameA, NameB},
                                      vis \in MapsOf({<<VStr(<<"a">>), x>> : x \in Payload(d)})}

Values == Atoms \cup UNION {Level(d) : d \in 0..(MaxDepth - 1)}

\* the sinks to_writer is called with: a sound one, and the faulty ones
Sinks == {VecSink} \cup {[mode |-> m, at |-> n] : m \in {"zero", "err"}, n \in 1..MaxWrites}

\* the values written to a faulty sink
WriterValues == Atoms \cup Level(0) \cup {Core(d) : d \in 1..MaxDepth}

(***************************************************************************)
(* The state: the value and the sink one entry point is called with, the   *)
(* entry point called (op, "init" before the call), the Encoder as the     *)
(* call left it (its w is what the sink accepted) and what the call        *)
(* returned.                                                               *)
(***************************************************************************)
Init ==
    /\ value \in Values
    /\ sink \in Sinks
    /\ sink # VecSink => value \in WriterValues
    /\ op = "init"
    /\ enc = with_formatter(sink, "compact")
    /\ res = "none"

ToVec ==
    /\ op = "init"
    /\ sink = VecSink
    /\ op' = "to_vec"
    /\ enc' = to_writer(VecSink, value)
    /\ res' = Result(enc')
    /\ UNCHANGED <<value, sink>>

ToVecPretty ==
    /\ op = "init"
    /\ sink = VecSink
    /\ op' = "to_vec_pretty"
    /\ enc' = to_writer_pretty(VecSink, value)
    /\ res' = Result(enc')
    /\ UNCHANGED <<value, sink>>

ToWriter ==
    /\ op = "init"
    /\ op' = "to_writer"
    /\ enc' = to_writer(sink, value)
    /\ res' = Result(enc')
    /\ UNCHANGED <<value, sink>>

ToWriterPretty ==
    /\ op = "init"
    /\ op' = "to_writer_pretty"
    /\ enc' = to_writer_pretty(sink, value)
    /\ res' = Result(enc')
    /\ UNCHANGED <<value, sink>>

Next == ToVec \/ ToVecPretty \/ ToWriter \/ ToWriterPretty

Spec == Init /\ [][Next]_vars

(***************************************************************************)
(* Helpers of the properties below.                                        *)
(***************************************************************************)
VecOps == {"to_vec", "to_vec_pretty"}

WriterOps == {"to_writer", "to_writer_pretty"}

FmtOf(o) == IF o \in {"to_vec", "to_writer"} THEN "compact" ELSE "pretty"

\* the encoding the entry point o writes into a Vec
Encoding(o, v) == IF FmtOf(o) = "compact" THEN to_vec(v) ELSE to_vec_pretty(v)

\* an encoder of the state's formatter, nested d collections deep, flag f
Nested(d, f) ==
    [with_formatter(VecSink, FmtOf(op)) EXCEPT !.current_indent = d, !.first_line = f]

RECURSIVE JoinComma(_)
JoinComma(texts) ==
    IF texts = <<>> THEN <<>>
    ELSE IF Len(texts) = 1 THEN texts[1]
    ELSE texts[1] \o <<",">> \o JoinComma(Tail(texts))

\* the value itself, without the attributes of its visitors
RECURSIVE Plain(_)
Plain(v) ==
    CASE v.k = "some" -> <<"some", Plain(v.x)>>
      [] v.k = "seq" -> <<"seq", [i \in 1..Len(v.elts) |-> Plain(v.elts[i])]>>
      [] v.k = "map" ->
            <<"map", [i \in 1..Len(v.pairs) |-> <<Plain(v.pairs[i][1]), Plain(v.pairs[i][2])>>]>>
      [] v.k \in {"enum_seq", "enum_map"} -> <<v.k, v.name, v.variant, Plain(v.vis)>>
      [] OTHER -> <<"leaf", v>>

Range(f) == {f[i] : i \in DOMAIN f}

\* a and b can be two values of one Rust type.  Option<T> with T itself
\* written "()" (unit, Option) is left out: there Some and None coincide by
\* the transparency of Option, whatever the encoder does.
RECURSIVE SameType(_, _)
SameType(a, b) ==
    CASE a.k \in {"unit", "bool", "int", "char", "str"} -> a.k = b.k
      [] a.k = "none" ->
            \/ b.k = "none"
            \/ b.k = "some" /\ b.x.k \notin {"unit", "none", "some"}
      [] a.k = "some" ->
            /\ a.x.k \notin {"unit", "none", "some"}
            /\ b.k = "none" \/ (b.k = "some" /\ SameType(a.x, b.x))
      [] a.k = "seq" ->
            /\ b.k = "seq"
            /\ \A x \in Range(a.elts) \cup Range(b.elts),
                  y \in Range(a.elts) \cup Range(b.elts) : SameType(x, y)
      [] a.k = "map" ->
            /\ b.k = "map"
            /\ \A x \in Range(a.pairs) \cup Range(b.pairs),
                  y \in Range(a.pairs) \cup Range(b.pairs) :
                    SameType(x[1], y[1]) /\ SameType(x[2], y[2])
      [] a.k \in {"enum_unit", "enum_seq", "enum_map"} ->
            /\ b.k \in {"enum_unit", "enum_seq", "enum_map"}
            /\ a.name = b.name
            /\ a.variant = b.variant =>
                  /\ a.k = b.k
                  /\ a.k # "enum_unit" => SameType(a.vis, b.vis)

(***************************************************************************)
(* C1.  Round trip: decoding the compact and the pretty encoding of a      *)
(* value yields the value again.  A decoder is a function of the target    *)
(* type and the text, so this requires, as the claim says, that two        *)
(* distinct values of one target type never have the same encoding.        *)
(***************************************************************************)
RoundTrip ==
    op \in VecOps =>
        \A u \in Values :
            (SameType(u, value) /\ Plain(u) # Plain(value)) => Encoding(op, u) # enc.w

(***************************************************************************)
(* C2.  Compact sequence encoding: a sequence of n >= 1 elements whose     *)
(* visitor passes one element per visit call is written as '[', the        *)
(* encodings of all n elements in order with one ',' between consecutive   *)
(* ones, and ']'.                                                          *)
(***************************************************************************)
CompactSeqExact ==
    (op = "to_vec" /\ value.k = "seq" /\ value.per = "one" /\ Len(value.elts) >= 1) =>
        enc.w = <<"[">>
                \o JoinComma([i \in 1..Len(value.elts) |-> to_vec(value.elts[i])])
                \o <<"]">>

(***************************************************************************)
(* C3.  Compact map encoding: a map of n >= 1 pairs is written as '{',     *)
(* every pair in order as key ':' value with one ',' between consecutive   *)
(* pairs, and '}'.                                                         *)
(***************************************************************************)
CompactMapExact ==
    (op = "to_vec" /\ value.k = "map" /\ value.per = "one" /\ Len(value.pairs) >= 1) =>
        enc.w = <<"{">>
                \o JoinComma([i \in 1..Len(value.pairs) |->
                        to_vec(value.pairs[i][1]) \o <<":">> \o to_vec(value.pairs[i][2])])
                \o <<"}">>

(***************************************************************************)
(* C4.  Unit-payload enum encoding: visit_enum_unit(T, V) writes the       *)
(* variant name V between two markers that are not the string quote, so    *)
(* two different unit variants of one enum type are written differently.   *)
(***************************************************************************)
EnumUnitWritesVariant ==
    (op \in VecOps /\ value.k = "enum_unit") =>
        /\ enc.w = <<Pilcrow>> \o value.variant \o <<Pilcrow>>
        /\ Pilcrow # Quote
        /\ \A u \in Values :
              (u.k = "enum_unit" /\ u.name = value.name /\ u.variant # value.variant)
                  => Encoding(op, u) # enc.w

(***************************************************************************)
(* C5.  Payload enum encoding equals a one-entry map: what visit_enum_seq  *)
(* and visit_enum_map write, under both formatters and at any nesting      *)
(* depth, is what visit_map writes for the map with the single entry       *)
(* (variant name as a string, payload).                                    *)
(***************************************************************************)
OneEntryMaps(v) ==
    {MapV(l, p, << <<VStr(v.variant), v.vis>> >>) : l \in {"some", "none"}, p \in {"one", "all"}}

EnumIsOneEntryMap ==
    (op \in VecOps /\ value.k \in {"enum_seq", "enum_map"}) =>
        \A m \in OneEntryMaps(value) :
            /\ enc.w = Encoding(op, m)
            /\ \A d \in 0..MaxDepth, f \in BOOLEAN :
                  Serialize(Nested(d, f), value).w = visit_map(Nested(d, f), m).w

EnumIsOneEntryMapWitness ==
    /\ op = "to_vec_pretty"
    /\ value.k = "enum_seq"
    /\ Len(value.vis.elts) = 2
    /\ value.vis.elts[1].k = "seq"
    /\ Len(enc.w) > 10

(***************************************************************************)
(* C6.  Empty collections: a sequence or map of zero elements is written   *)
(* as exactly '[]' or '{}' by both encoders, leaving the formatter's depth *)
(* and the encoder's first-element flag as they were.  EmptyCollections    *)
(* states it for every empty collection, EmptyKnownZero for those whose    *)
(* visitor reports the length 0.                                           *)
(***************************************************************************)
IsEmpty(v) == (v.k = "seq" /\ v.elts = <<>>) \/ (v.k = "map" /\ v.pairs = <<>>)

EmptyText(v) == IF v.k = "seq" THEN <<"[", "]">> ELSE <<"{", "}">>

Bypassed(v) ==
    /\ enc.w = EmptyText(v)
    /\ enc.first_line = Nested(0, FALSE).first_line
    /\ enc.current_indent = Nested(0, FALSE).current_indent
    /\ \A d \in 0..MaxDepth, f \in BOOLEAN :
          LET e1 == Serialize(Nested(d, f), v)
          IN  e1.w = EmptyText(v) /\ e1.first_line = f /\ e1.current_indent = d

OptionTransparent ==
    op # "init" =>
        /\ value.k = "some" => enc = Serialize(with_formatter(sink, FmtOf(op)), value.x)
        /\ value.k = "none" =>
              /\ enc = Serialize(with_formatter(sink, FmtOf(op)), VUnit)
              /\ sink = VecSink => enc.w = <<"(", ")">>

OptionTransparentWitness ==
    op = "to_vec_pretty" /\ value.k = "some" /\ value.x.k = "seq" /\ Len(enc.w) > 5

(***************************************************************************)
(* C8.  Pretty layout: in a pretty encoding every element or pair starts   *)
(* on a line of its own indented by d indent units, d the number of        *)
(* collections open there, every closing delimiter of a non-empty          *)
(* collection starts a line indented by d - 1 units, and the formatter's   *)
(* depth never goes below 0 and is 0 when a successful encode returns.     *)
(* The layout is that of the text the encoder writes, read where the sink  *)
(* completed every write; d is counted on that text.                       *)
(***************************************************************************)
OpenAt(w, p) ==
    Cardinality({i \in 1..(p - 1) : w[i] \in {"[", "{"}})
    - Cardinality({i \in 1..(p - 1) : w[i] \in {"]", "}"}})

\* position p of w starts a line indented by exactly n copies of unit u
StartsLine(w, p, n, u) ==
    LET k == n * Len(u)
    IN  /\ n >= 0
        /\ p - k - 1 >= 1
        /\ w[p - k - 1] = "\n"
        /\ \A i \in 1..k : w[p - k - 1 + i] = u[((i - 1) % Len(u)) + 1]

Opener(ch) == IF ch = "]" THEN "[" ELSE "{"

\* the first position after the line break at j that holds no space
LineText(w, j) ==
    CHOOSE p \in (j + 1)..Len(w) : w[p] # " " /\ \A i \in (j + 1)..(p - 1) : w[i] = " "

PrettyLayout ==
    /\ (op \in {"to_vec_pretty", "to_writer_pretty"} /\ ~enc.lost) =>
          /\ \A i \in DOMAIN enc.log :
                StartsLine(enc.w, enc.log[i].pos, OpenAt(enc.w, enc.log[i].pos), enc.indent)
          /\ \A j \in DOMAIN enc.w :
                enc.w[j] \in {"]", "}"} =>
                    \/ enc.w[j - 1] = Opener(enc.w[j])
                    \/ StartsLine(enc.w, j, OpenAt(enc.w, j) - 1, enc.indent)
          /\ \A j \in DOMAIN enc.w :
                enc.w[j] = "\n" =>
                    LET p == LineText(enc.w, j)
                    IN  /\ \E q \in (j + 1)..Len(enc.w) : enc.w[q] # " "
                        /\ p - j - 1 = Len(enc.indent) *
                              (IF enc.w[p] \in {"]", "}"}
                               THEN OpenAt(enc.w, p) - 1 ELSE OpenAt(enc.w, p))
    /\ op \in {"to_vec_pretty", "to_writer_pretty"} =>
          /\ ~enc.underflow
          /\ res = "Ok" => enc.current_indent = 0

PrettyLayoutWitness ==
    /\ op = "to_vec_pretty"
    /\ res = "Ok"
    /\ \E i \in DOMAIN enc.log :
          enc.log[i].nth = 2 /\ OpenAt(enc.w, enc.log[i].pos) = 2
    /\ \E j \in DOMAIN enc.w : enc.w[j] = "}" /\ OpenAt(enc.w, j) = 2

(***************************************************************************)
(* C9.  Fail-stop encoding: to_writer and to_writer_pretty return Ok only  *)
(* if the sink accepted every byte of the encoding, in order; when a write *)
(* does not complete the call returns an I/O error and no write follows    *)
(* the failed one.                                                         *)
(***************************************************************************)
FailStop ==
    op \in WriterOps =>
        /\ res = "Ok" => enc.w = Encoding(op, value)
        /\ enc.lost => (res = "Err" /\ ~enc.after)

(***************************************************************************)
(* C10.  First-element flag: whenever visit_seq_elt or visit_map_elt calls *)
(* Formatter.comma, isFirst is true exactly when the element is the first  *)
(* of its own innermost collection.                                        *)
(***************************************************************************)
FirstFlag ==
    op # "init" =>
        \A i \in DOMAIN enc.log : enc.log[i].first = (enc.log[i].nth = 1)

=============================================================================
